---- MODULE Spec2Model ----
(***************************************************************************)
(* A model of the surrealdb_functions parser (src/src/parser) and of its   *)
(* callers in src/src/lib.rs.  Text is a sequence of one-character         *)
(* strings; a parser is an operator of the whole text s and a 1-based      *)
(* cursor p, and yields a record [ok, pos, val]: on success pos is the     *)
(* cursor after the consumed text, on failure pos is the position nom's    *)
(* Err::Error carries.                                                     *)
(***************************************************************************)
EXTENDS Integers, Sequences, FiniteSets, TLC

VARIABLES
    input,      \* the description of the text handed to the parser
    phase,      \* "src": text chosen, operation not yet applied; else the operation applied
    result      \* what the operation returned

vars == <<input, phase, result>>

----------------------------------------------------------------------------
(* nom's IResult *)

Ok(p, v) == [ok |-> TRUE, pos |-> p, val |-> v]

Fail(p) == [ok |-> FALSE, pos |-> p, val |-> <<>>]

----------------------------------------------------------------------------
(* Characters *)

White == {" ", "\t", "\n", "\r"}

Digits == {"0", "1", "2", "3", "4", "5", "6", "7", "8", "9"}

Lowers == {"a", "b", "c", "d", "e", "f", "g", "h", "i", "j", "k", "l", "m",
           "n", "o", "p", "q", "r", "s", "t", "u", "v", "w", "x", "y", "z"}

Uppers == {"A", "B", "C", "D", "E", "F", "G", "H", "I", "J", "K", "L", "M",
           "N", "O", "P", "Q", "R", "S", "T", "U", "V", "W", "X", "Y", "Z"}

UpperOf == [c \in Lowers |->
    CASE c = "a" -> "A" [] c = "b" -> "B" [] c = "c" -> "C" [] c = "d" -> "D"
      [] c = "e" -> "E" [] c = "f" -> "F" [] c = "g" -> "G" [] c = "h" -> "H"
      [] c = "i" -> "I" [] c = "j" -> "J" [] c = "k" -> "K" [] c = "l" -> "L"
      [] c = "m" -> "M" [] c = "n" -> "N" [] c = "o" -> "O" [] c = "p" -> "P"
      [] c = "q" -> "Q" [] c = "r" -> "R" [] c = "s" -> "S" [] c = "t" -> "T"
      [] c = "u" -> "U" [] c = "v" -> "V" [] c = "w" -> "W" [] c = "x" -> "X"
      [] c = "y" -> "Y" [] c = "z" -> "Z"]

\* char::to_uppercase on the characters of the model (ASCII)
ToUpper(c) == IF c \in Lowers THEN UpperOf[c] ELSE c

NUL == "NUL"

\* U+0060, written as an atom: the character itself cannot stand in a string here
BACKTICK == "BQ"

BACKSLASH == "\\"

BRACKET_L == "<<"

BRACKET_R == ">>"

BACKTICK_ESC_NUL == {BACKTICK, BACKSLASH, NUL}

BRACKET_END_NUL == {BRACKET_R, NUL}

\* the characters of a bare identifier
ValChars == Lowers \cup Uppers \cup Digits \cup {"_"}

val_char(c) == c \in Lowers \cup Uppers \cup Digits \/ c = "_"

val_u8(c) == c \in Lowers \cup Uppers \cup Digits \/ c = "_"

is_digit(c) == c \in Digits

----------------------------------------------------------------------------
(* nom primitives *)

RECURSIVE SkipWhile(_, _, _)
\* the cursor after the longest run of characters of set S that starts at p
SkipWhile(s, p, S) ==
    IF p <= Len(s) /\ s[p] \in S THEN SkipWhile(s, p + 1, S) ELSE p

RECURSIVE SkipUntil(_, _, _)
\* the cursor at the first character of set S at or after p (Len(s) + 1 if none)
SkipUntil(s, p, S) ==
    IF p <= Len(s) /\ s[p] \notin S THEN SkipUntil(s, p + 1, S) ELSE p

Slice(s, p, q) == SubSeq(s, p, q - 1)

multispace0(s, p) == Ok(SkipWhile(s, p, White), <<>>)

multispace1(s, p) ==
    LET q == SkipWhile(s, p, White)
    IN IF q = p THEN Fail(p) ELSE Ok(q, <<>>)

char(s, p, c) ==
    IF p <= Len(s) /\ s[p] = c THEN Ok(p + 1, c) ELSE Fail(p)

MatchAt(s, p, t) ==
    /\ p + Len(t) - 1 <= Len(s)
    /\ \A k \in 1..Len(t) : s[p + k - 1] = t[k]

tag(s, p, t) ==
    IF MatchAt(s, p, t) THEN Ok(p + Len(t), t) ELSE Fail(p)

tag_no_case(s, p, t) ==
    IF /\ p + Len(t) - 1 <= Len(s)
       /\ \A k \in 1..Len(t) : ToUpper(s[p + k - 1]) = ToUpper(t[k])
    THEN Ok(p + Len(t), Slice(s, p, p + Len(t)))
    ELSE Fail(p)

RECURSIVE FindTag(_, _, _)
\* the first position at or after p where t occurs, 0 if it occurs nowhere
FindTag(s, p, t) ==
    IF p + Len(t) - 1 > Len(s) THEN 0
    ELSE IF MatchAt(s, p, t) THEN p
    ELSE FindTag(s, p + 1, t)

take_until(s, p, t) ==
    LET q == FindTag(s, p, t)
    IN IF q = 0 THEN Fail(p) ELSE Ok(q, Slice(s, p, q))

not_line_ending(s, p) ==
    LET q == SkipUntil(s, p, {"\r", "\n"})
    IN IF q <= Len(s) /\ s[q] = "\r" /\ ~MatchAt(s, q, <<"\r", "\n">>)
       THEN Fail(p)
       ELSE Ok(q, Slice(s, p, q))

take_while1(s, p, S) ==
    LET q == SkipWhile(s, p, S)
    IN IF q = p THEN Fail(p) ELSE Ok(q, Slice(s, p, q))

is_not(s, p, S) ==
    LET q == SkipUntil(s, p, S)
    IN IF q = p THEN Fail(p) ELSE Ok(q, Slice(s, p, q))

RECURSIVE TrimStart(_)
TrimStart(t) ==
    IF t # <<>> /\ Head(t) \in White THEN TrimStart(Tail(t)) ELSE t

RECURSIVE TrimEnd(_)
TrimEnd(t) ==
    IF t # <<>> /\ t[Len(t)] \in White THEN TrimEnd(SubSeq(t, 1, Len(t) - 1)) ELSE t

\* str::trim
trim(t) == TrimEnd(TrimStart(t))

----------------------------------------------------------------------------
(* Sequencing and choice *)

\* `let (i, v) = parser(i)?; rest` is written Bind([v \in {parser} |-> Try(v, rest)]):
\* the rest of the function body runs on the result v of a parser that
\* succeeded, and an error is handed on as it is (the `?`)
Try(r, k) == IF r.ok THEN k ELSE Fail(r.pos)

\* the value of the one-point function K, whose argument is computed once
Bind(K) == CHOOSE y \in UNION {{k[r] : r \in DOMAIN k} : k \in {K}} : TRUE

\* alt((a, b)): the first if it succeeds, else the second (and its error)
Alt(a, b) == CHOOSE x \in {IF v.ok THEN v ELSE b : v \in {a}} : TRUE

\* `let v = x; rest`, written Let([v \in {x} |-> rest])
Let(K) == Bind(K)

----------------------------------------------------------------------------
(* parser/comment.rs *)

block(s, p) ==
    Bind([a \in {multispace0(s, p)} |-> Try(a,
    Bind([b \in {char(s, a.pos, "/")} |-> Try(b,
    Bind([c \in {char(s, b.pos, "*")} |-> Try(c,
    Bind([d \in {take_until(s, c.pos, <<"*", "/">>)} |-> Try(d,
    Bind([e \in {char(s, d.pos, "*")} |-> Try(e,
    Bind([f \in {char(s, e.pos, "/")} |-> Try(f,
    Bind([g \in {multispace0(s, f.pos)} |-> Try(g,
    Ok(g.pos, trim(d.val)))]))]))]))]))]))]))])

slash(s, p) ==
    Bind([a \in {multispace0(s, p)} |-> Try(a,
    Bind([b \in {char(s, a.pos, "/")} |-> Try(b,
    Bind([c \in {char(s, b.pos, "/")} |-> Try(c,
    Bind([d \in {not_line_ending(s, c.pos)} |-> Try(d,
    Ok(d.pos, trim(d.val)))]))]))]))])

dash(s, p) ==
    Bind([a \in {multispace0(s, p)} |-> Try(a,
    Bind([b \in {char(s, a.pos, "-")} |-> Try(b,
    Bind([c \in {char(s, b.pos, "-")} |-> Try(c,
    Bind([d \in {not_line_ending(s, c.pos)} |-> Try(d,
    Ok(d.pos, trim(d.val)))]))]))]))])

hash(s, p) ==
    Bind([a \in {multispace0(s, p)} |-> Try(a,
    Bind([b \in {char(s, a.pos, "#")} |-> Try(b,
    Bind([d \in {not_line_ending(s, b.pos)} |-> Try(d,
    Ok(d.pos, trim(d.val)))]))]))])

\* alt((block, slash, dash, hash))
any_comment(s, p) == Alt(block(s, p), Alt(slash(s, p), Alt(dash(s, p), hash(s, p))))

\* one turn of many1's loop on the result r of its parser: acc holds the elements
\* so far, at is where r was applied, More(_, _) is the loop
many1_turn(r, at, acc, More(_, _)) ==
    Let([v \in {r} |->
        IF ~v.ok THEN (IF acc = <<>> THEN Fail(v.pos) ELSE Ok(at, acc))
        ELSE IF v.pos = at THEN Fail(at)
        ELSE More(v.pos, Append(acc, v.val))])

RECURSIVE many1_comments(_, _, _)
\* many1(alt((block, slash, dash, hash)))
many1_comments(s, p, acc) ==
    many1_turn(any_comment(s, p), p, acc, LAMBDA q, more : many1_comments(s, q, more))

comment_wanted(s, p) ==
    Bind([a \in {multispace0(s, p)} |-> Try(a,
    Bind([b \in {many1_comments(s, a.pos, <<>>)} |-> Try(b,
    Bind([c \in {multispace0(s, b.pos)} |-> Try(c,
    Ok(c.pos, b.val))]))]))])

comment(s, p) ==
    Bind([a \in {multispace0(s, p)} |-> Try(a,
    Bind([b \in {many1_comments(s, a.pos, <<>>)} |-> Try(b,
    Bind([c \in {multispace0(s, b.pos)} |-> Try(c,
    Ok(c.pos, <<>>))]))]))])

\* blank made to need a whitespace character
blank_needed(s, p) == multispace1(s, p)

blank(s, p) == multispace0(s, p)

space(s, p) == multispace1(s, p)

blank_(s, p) == Bind([a \in {multispace0(s, p)} |-> Try(a, Ok(a.pos, <<>>))])

mightbespace(s, p) == Alt(comment(s, p), blank(s, p))

\* shouldbespace made to accept no separation at all
shouldbespace_optional(s, p) == mightbespace(s, p)

shouldbespace(s, p) == Alt(comment(s, p), space(s, p))

\* mightbecomment made to skip whitespace and keep no comment
mightbecomment_none(s, p) == blank_(s, p)

mightbecomment(s, p) == Alt(comment_wanted(s, p), blank_(s, p))

----------------------------------------------------------------------------
(* parser/common.rs *)

\* many1(char(';'))
\* many0(char(';')) in the place of many1
many0_semicolons(s, p) == Ok(SkipWhile(s, p, {";"}), <<>>)

many1_semicolons(s, p) ==
    Bind([a \in {char(s, p, ";")} |-> Try(a, Ok(SkipWhile(s, a.pos, {";"}), <<>>))])

colons(s, p) ==
    Bind([a \in {mightbespace(s, p)} |-> Try(a,
    Bind([b \in {many1_semicolons(s, a.pos)} |-> Try(b,
    Bind([c \in {mightbespace(s, b.pos)} |-> Try(c,
    Ok(c.pos, <<>>))]))]))])

\* commas made to take no whitespace or comment before the comma
commas_tight(s, p) ==
    Bind([b \in {char(s, p, ",")} |-> Try(b,
    Bind([c \in {mightbespace(s, b.pos)} |-> Try(c,
    Ok(c.pos, <<>>))]))])

commas(s, p) ==
    Bind([a \in {mightbespace(s, p)} |-> Try(a,
    Bind([b \in {char(s, a.pos, ",")} |-> Try(b,
    Bind([c \in {mightbespace(s, b.pos)} |-> Try(c,
    Ok(c.pos, <<>>))]))]))])

verbar(s, p) ==
    Bind([a \in {mightbespace(s, p)} |-> Try(a,
    Bind([b \in {char(s, a.pos, "|")} |-> Try(b,
    Bind([c \in {mightbespace(s, b.pos)} |-> Try(c,
    Ok(c.pos, <<>>))]))]))])

\* openbraces made to stop right after the brace
openbraces_only(s, p) ==
    Bind([a \in {char(s, p, "{")} |-> Try(a, Ok(a.pos, <<>>))])

openbraces(s, p) ==
    Bind([a \in {char(s, p, "{")} |-> Try(a,
    Bind([b \in {mightbespace(s, a.pos)} |-> Try(b,
    Ok(b.pos, <<>>))]))])

closebraces(s, p) ==
    Bind([a \in {mightbespace(s, p)} |-> Try(a,
    Bind([b \in {char(s, a.pos, "}")} |-> Try(b,
    Ok(b.pos, <<>>))]))])

openchevron(s, p) ==
    Bind([a \in {char(s, p, "<")} |-> Try(a,
    Bind([b \in {mightbespace(s, a.pos)} |-> Try(b,
    Ok(b.pos, <<>>))]))])

closechevron(s, p) ==
    Bind([a \in {mightbespace(s, p)} |-> Try(a,
    Bind([b \in {char(s, a.pos, ">")} |-> Try(b,
    Ok(b.pos, <<>>))]))])

----------------------------------------------------------------------------
(* parser/escape.rs *)

BACKTICK_ESC == <<BACKSLASH, BACKTICK>>

RECURSIVE replace(_, _, _)
\* str::replace of the character r by the text e
replace(t, r, e) ==
    IF t = <<>> THEN <<>>
    ELSE (IF Head(t) = r THEN e ELSE <<Head(t)>>) \o replace(Tail(t), r, e)

\* escape_numeric made to quote every string
escape_numeric_always(t, l, r, e) == <<l>> \o replace(t, r, e) \o <<r>>

escape_numeric(t, l, r, e) ==
    IF \E k \in 1..Len(t) : ~val_u8(t[k])
    THEN <<l>> \o replace(t, r, e) \o <<r>>
    ELSE IF \A k \in 1..Len(t) : is_digit(t[k])
    THEN <<l>> \o replace(t, r, e) \o <<r>>
    ELSE t

escape_ident(t) == escape_numeric(t, BACKTICK, BACKTICK, BACKTICK_ESC)

----------------------------------------------------------------------------
(* parser/ident.rs *)

\* the alt of value(.., char(..)) that escaped_transform applies after a backslash
escape_code(s, p) ==
    IF p > Len(s) THEN Fail(p)
    ELSE CASE s[p] = BACKSLASH -> Ok(p + 1, BACKSLASH)
           [] s[p] = BACKTICK  -> Ok(p + 1, BACKTICK)
           [] s[p] = "/"       -> Ok(p + 1, "/")
           [] s[p] = "b"       -> Ok(p + 1, "BS")
           [] s[p] = "f"       -> Ok(p + 1, "FF")
           [] s[p] = "n"       -> Ok(p + 1, "\n")
           [] s[p] = "r"       -> Ok(p + 1, "\r")
           [] s[p] = "t"       -> Ok(p + 1, "\t")
           [] OTHER            -> Fail(p)

\* one turn of escaped_transform's loop at index p of the text that starts at
\* start: n is the result of is_not(BACKTICK_ESC_NUL) there, t that of the escape
\* after a backslash there, acc the output so far, More(_, _) the loop
escaped_turn(s, start, p, normal, transform, acc, More(_, _)) ==
    Let([n \in {normal} |-> Let([t \in {transform} |->
        IF n.ok
        THEN (IF n.pos > Len(s) THEN Ok(n.pos, acc \o n.val) ELSE More(n.pos, acc \o n.val))
        ELSE IF s[p] = BACKSLASH
        THEN (IF p + 1 > Len(s) THEN Fail(p)
              ELSE IF ~t.ok THEN Fail(t.pos)
              ELSE IF t.pos > Len(s) THEN Ok(t.pos, Append(acc, t.val))
              ELSE More(t.pos, Append(acc, t.val)))
        ELSE IF p = start THEN Fail(p)
        ELSE Ok(p, acc)])])

RECURSIVE escaped_transform(_, _, _, _)
\* escaped_transform(is_not(BACKTICK_ESC_NUL), '\\', escape_code)
escaped_transform(s, start, p, acc) ==
    IF p > Len(s) THEN Ok(p, acc)
    ELSE escaped_turn(s, start, p, is_not(s, p, BACKTICK_ESC_NUL), escape_code(s, p + 1),
                      acc, LAMBDA q, more : escaped_transform(s, start, q, more))

ident_default(s, p) == take_while1(s, p, {c \in ValChars : val_char(c)})

ident_backtick(s, p) ==
    Bind([a \in {char(s, p, BACKTICK)} |-> Try(a,
    Bind([b \in {escaped_transform(s, a.pos, a.pos, <<>>)} |-> Try(b,
    Bind([c \in {char(s, b.pos, BACKTICK)} |-> Try(c,
    Ok(c.pos, b.val))]))]))])

\* ident_brackets made to keep the delimiters in its value
ident_brackets_kept(s, p) ==
    Bind([a \in {char(s, p, BRACKET_L)} |-> Try(a,
    Bind([b \in {is_not(s, a.pos, BRACKET_END_NUL)} |-> Try(b,
    Bind([c \in {char(s, b.pos, BRACKET_R)} |-> Try(c,
    Ok(c.pos, <<BRACKET_L>> \o b.val \o <<BRACKET_R>>))]))]))])

ident_brackets(s, p) ==
    Bind([a \in {char(s, p, BRACKET_L)} |-> Try(a,
    Bind([b \in {is_not(s, a.pos, BRACKET_END_NUL)} |-> Try(b,
    Bind([c \in {char(s, b.pos, BRACKET_R)} |-> Try(c,
    Ok(c.pos, b.val))]))]))])

\* ident_raw with the bracket form tried before the backtick form
ident_raw_reordered(s, p) ==
    Alt(ident_default(s, p), Alt(ident_brackets(s, p), ident_backtick(s, p)))

ident_raw(s, p) == Alt(ident_default(s, p), Alt(ident_backtick(s, p), ident_brackets(s, p)))

ident(s, p) == ident_raw(s, p)

\* Display for Ident
IdentDisplay(v) == escape_ident(v)

\* one turn of the loop of separated_list0 and separated_list1 at p: sep is the
\* result of the separator there, El(_) the element parser, applied after it
separated_turn(p, sep, El(_), acc, More(_, _)) ==
    Let([sp \in {sep} |->
        IF ~sp.ok THEN Ok(p, acc)
        ELSE IF sp.pos = p THEN Fail(sp.pos)
        ELSE Let([el \in {El(sp.pos)} |->
            IF ~el.ok THEN Ok(p, acc)
            ELSE More(el.pos, Append(acc, el.val))])])

RECURSIVE multikeep_more(_, _, _)
multikeep_more(s, p, acc) ==
    separated_turn(p, tag(s, p, <<":", ":">>),
        LAMBDA q : take_while1(s, q, {c \in ValChars : val_char(c)}), acc, LAMBDA q, more : multikeep_more(s, q, more))

RECURSIVE multikeep_quoted_more(_, _, _)
multikeep_quoted_more(s, p, acc) ==
    separated_turn(p, tag(s, p, <<":", ":">>),
        LAMBDA q : ident_raw(s, q), acc, LAMBDA q, more : multikeep_quoted_more(s, q, more))

\* multikeep with each segment read by ident_raw, the quoted forms taken
multikeep_quoted(s, p) ==
    Bind([el \in {ident_raw(s, p)} |-> Try(el,
    multikeep_quoted_more(s, el.pos, <<el.val>>))])

\* separated_list1(tag("::"), take_while1(val_char))
multikeep(s, p) ==
    Bind([el \in {take_while1(s, p, {c \in ValChars : val_char(c)})} |-> Try(el,
    multikeep_more(s, el.pos, <<el.val>>))])

----------------------------------------------------------------------------
(* parser/table.rs *)

table(s, p) == ident_raw(s, p)

\* Display for Table
TableDisplay(v) == escape_ident(v)

----------------------------------------------------------------------------
(* parser/kind.rs: the type grammar, of which the primitive keywords, option<Kind> *)
(* and record<Table | ...> are modelled                                           *)

PrimitiveKinds == <<
    <<"a", "n", "y">>, <<"b", "o", "o", "l">>, <<"b", "y", "t", "e", "s">>,
    <<"d", "a", "t", "e", "t", "i", "m", "e">>, <<"d", "e", "c", "i", "m", "a", "l">>,
    <<"d", "u", "r", "a", "t", "i", "o", "n">>, <<"f", "l", "o", "a", "t">>,
    <<"i", "n", "t">>, <<"n", "u", "m", "b", "e", "r">>, <<"o", "b", "j", "e", "c", "t">>,
    <<"p", "o", "i", "n", "t">>, <<"s", "t", "r", "i", "n", "g">>, <<"u", "u", "i", "d">> >>

KwRecord == <<"r", "e", "c", "o", "r", "d">>

KwOption == <<"o", "p", "t", "i", "o", "n">>

\* the first keyword of PrimitiveKinds that stands at p
primitive_kind(s, p) ==
    IF \E k \in 1..Len(PrimitiveKinds) : tag_no_case(s, p, PrimitiveKinds[k]).ok
    THEN LET k == CHOOSE k \in 1..Len(PrimitiveKinds) : tag_no_case(s, p, PrimitiveKinds[k]).ok
         IN Ok(p + Len(PrimitiveKinds[k]), [kind |-> PrimitiveKinds[k]])
    ELSE Fail(p)

RECURSIVE tables_more(_, _, _)
tables_more(s, p, acc) ==
    separated_turn(p, verbar(s, p), LAMBDA q : table(s, q), acc, LAMBDA q, more : tables_more(s, q, more))

record_kind(s, p) ==
    Bind([a \in {tag_no_case(s, p, KwRecord)} |-> Try(a,
    Bind([b \in {openchevron(s, a.pos)} |-> Try(b,
    Bind([c \in {table(s, b.pos)} |-> Try(c,
    Bind([d \in {tables_more(s, c.pos, <<c.val>>)} |-> Try(d,
    Bind([e \in {closechevron(s, d.pos)} |-> Try(e,
    Ok(e.pos, [kind |-> KwRecord, tables |-> d.val]))]))]))]))]))])

RECURSIVE kind(_, _)
kind(s, p) ==
    Alt(primitive_kind(s, p), Alt(record_kind(s, p),
        Bind([a \in {tag_no_case(s, p, KwOption)} |-> Try(a,
        Bind([b \in {openchevron(s, a.pos)} |-> Try(b,
        Bind([c \in {kind(s, b.pos)} |-> Try(c,
        Bind([d \in {closechevron(s, c.pos)} |-> Try(d,
        Ok(d.pos, [kind |-> KwOption, of |-> c.val]))]))]))]))])))

----------------------------------------------------------------------------
(* parser/mod.rs *)

\* ignored_block made to close every brace that follows the first closing one
ignored_block_nested(s, p) ==
    Bind([a \in {openbraces(s, p)} |-> Try(a,
    Bind([b \in {take_until(s, a.pos, <<"}">>)} |-> Try(b,
    Bind([c \in {closebraces(s, b.pos)} |-> Try(c,
    Ok(SkipWhile(s, c.pos, {"}"}), <<>>))]))]))])

ignored_block(s, p) ==
    Bind([a \in {openbraces(s, p)} |-> Try(a,
    Bind([b \in {take_until(s, a.pos, <<"}">>)} |-> Try(b,
    Bind([c \in {closebraces(s, b.pos)} |-> Try(c,
    Ok(c.pos, <<>>))]))]))])

\* the closure handed to separated_list0 in function: one `$name: kind` parameter
argument(s, p) ==
    Bind([a \in {char(s, p, "$")} |-> Try(a,
    Bind([b \in {ident(s, a.pos)} |-> Try(b,
    Bind([c \in {mightbespace(s, b.pos)} |-> Try(c,
    Bind([d \in {char(s, c.pos, ":")} |-> Try(d,
    Bind([e \in {mightbespace(s, d.pos)} |-> Try(e,
    Bind([f \in {kind(s, e.pos)} |-> Try(f,
    Ok(f.pos, <<b.val, f.val>>))]))]))]))]))]))])

RECURSIVE arguments_more(_, _, _)
arguments_more(s, p, acc) ==
    separated_turn(p, commas(s, p), LAMBDA q : argument(s, q), acc, LAMBDA q, more : arguments_more(s, q, more))

\* the parameters as separated_list1 would take them, one or more
arguments_some(s, p) ==
    Bind([el \in {argument(s, p)} |-> Try(el, arguments_more(s, el.pos, <<el.val>>))])

\* separated_list0(commas, argument)
arguments(s, p) ==
    Alt(Bind([el \in {argument(s, p)} |-> Try(el, arguments_more(s, el.pos, <<el.val>>))]),
        Ok(p, <<>>))

\* function up to the body block: the comments, the path and the parameters
function_head(s, p) ==
    Bind([c \in {mightbecomment(s, p)} |-> Try(c,
    Bind([a1 \in {mightbespace(s, c.pos)} |-> Try(a1,
    Bind([a2 \in {tag_no_case(s, a1.pos, <<"D", "E", "F", "I", "N", "E">>)} |-> Try(a2,
    Bind([a3 \in {shouldbespace(s, a2.pos)} |-> Try(a3,
    Bind([a4 \in {tag_no_case(s, a3.pos, <<"F", "U", "N", "C", "T", "I", "O", "N">>)} |-> Try(a4,
    Bind([a5 \in {shouldbespace(s, a4.pos)} |-> Try(a5,
    Bind([a6 \in {tag(s, a5.pos, <<"f", "n", ":", ":">>)} |-> Try(a6,
    Bind([n \in {multikeep(s, a6.pos)} |-> Try(n,
    Bind([b1 \in {mightbespace(s, n.pos)} |-> Try(b1,
    Bind([b2 \in {char(s, b1.pos, "(")} |-> Try(b2,
    Bind([b3 \in {mightbespace(s, b2.pos)} |-> Try(b3,
    Bind([ar \in {arguments(s, b3.pos)} |-> Try(ar,
    Bind([b4 \in {mightbespace(s, ar.pos)} |-> Try(b4,
    Bind([b5 \in {char(s, b4.pos, ")")} |-> Try(b5,
    Bind([b6 \in {mightbespace(s, b5.pos)} |-> Try(b6,
    Ok(b6.pos, [comments |-> c.val, name |-> n.val, args |-> ar.val]))]))]))]))]))]))]))]))]))]))]))]))]))]))]))])

function(s, p) ==
    Bind([h \in {function_head(s, p)} |-> Try(h,
    Bind([b \in {ignored_block(s, h.pos)} |-> Try(b,
    Ok(b.pos, h.val))]))])

RECURSIVE functions_more(_, _, _)
functions_more(s, p, acc) ==
    separated_turn(p, colons(s, p), LAMBDA q : function(s, q), acc, LAMBDA q, more : functions_more(s, q, more))

\* separated_list1(colons, function)
separated_functions(s, p) ==
    Bind([el \in {function(s, p)} |-> Try(el, functions_more(s, el.pos, <<el.val>>))])

\* functions without the terminator after the last statement
functions_open(s, p) ==
    Bind([a \in {multispace0(s, p)} |-> Try(a,
    Bind([b \in {separated_functions(s, a.pos)} |-> Try(b,
    Ok(b.pos, b.val))]))])

functions(s, p) ==
    Bind([a \in {multispace0(s, p)} |-> Try(a,
    Bind([b \in {separated_functions(s, a.pos)} |-> Try(b,
    Bind([c \in {colons(s, b.pos)} |-> Try(c,
    Ok(c.pos, b.val))]))]))])

----------------------------------------------------------------------------
(* lib.rs *)

\* parse_surrealql_file without all_consuming
parse_surrealql_prefix(s) == functions(s, 1)

\* all_consuming(parser::functions)(&contents), as parse_surrealql_file applies it
parse_surrealql_file(s) ==
    Bind([r \in {functions(s, 1)} |-> Try(r,
    IF r.pos <= Len(s) THEN Fail(r.pos) ELSE r)])

----------------------------------------------------------------------------
(* The texts the operations are applied to.  A statement is described by   *)
(* what its author wrote (comments, keywords, separations, path,           *)
(* parameters, body); StatementText writes it out.                         *)

MaxStatements == 2

MaxComments == 2

MaxSegments == 2

MaxArgs == 2

RECURSIVE Concat(_)
Concat(ts) == IF ts = <<>> THEN <<>> ELSE Head(ts) \o Concat(Tail(ts))

RECURSIVE Join(_, _)
Join(ts, sep) ==
    IF ts = <<>> THEN <<>>
    ELSE IF Len(ts) = 1 THEN ts[1]
    ELSE ts[1] \o sep \o Join(Tail(ts), sep)

SeqsUpTo(S, lo, hi) == UNION {[1..n -> S] : n \in lo..hi}

\* a comment as written: its syntax and the text between its delimiters
CommentText(c) ==
    CASE c.style = "dash"  -> <<"-", "-">> \o c.text \o <<"\n">>
      [] c.style = "slash" -> <<"/", "/">> \o c.text \o <<"\n">>
      [] c.style = "hash"  -> <<"#">> \o c.text \o <<"\n">>
      [] c.style = "block" -> <<"/", "*">> \o c.text \o <<"*", "/", " ">>

ArgText(a) == <<"$">> \o a.written \o <<":", " ">> \o a.ty

StatementHead(st) ==
    Concat([k \in 1..Len(st.lead) |-> CommentText(st.lead[k])])
        \o st.define \o st.sep1 \o st.func \o st.sep2 \o <<"f", "n", ":", ":">>
        \o Join(st.name, <<":", ":">>) \o <<"(">>
        \o Join([k \in 1..Len(st.args) |-> ArgText(st.args[k])], <<",", " ">>)
        \o <<")", " ">>

StatementText(st) == StatementHead(st) \o <<"{">> \o st.body \o <<"}">>

FileText(f) ==
    Concat([k \in 1..Len(f.items) |-> StatementText(f.items[k].st) \o f.items[k].term])
        \o f.trail

\* what the author of a statement means by it
Meant(st) ==
    [comments |-> [k \in 1..Len(st.lead) |-> trim(st.lead[k].text)],
     name     |-> st.name,
     args     |-> [k \in 1..Len(st.args) |-> <<st.args[k].id, [kind |-> st.args[k].ty]>>]]

Comments == {[style |-> "dash", text |-> <<" ", "a", " ">>], [style |-> "slash", text |-> <<"b">>],
             [style |-> "hash", text |-> <<" ", "c">>], [style |-> "block", text |-> <<" ", "d", " ">>]}

Args == {[id |-> <<"a">>, written |-> <<"a">>, ty |-> <<"i", "n", "t">>],
         [id |-> <<"b">>, written |-> <<BACKTICK, "b", BACKTICK>>, ty |-> <<"s", "t", "r", "i", "n", "g">>]}

Segments == {<<"f">>, <<"g", "2">>}

Plain == [lead |-> <<>>, define |-> <<"D", "E", "F", "I", "N", "E">>, sep1 |-> <<" ">>,
          func |-> <<"F", "U", "N", "C", "T", "I", "O", "N">>, sep2 |-> <<" ">>, name |-> <<<<"f">>>>,
          args |-> <<>>, body |-> <<>>]

Rich == [lead |-> <<[style |-> "dash", text |-> <<" ", "a", " ">>], [style |-> "block", text |-> <<" ", "d", " ">>]>>,
         define |-> <<"d", "e", "f", "i", "n", "e">>, sep1 |-> <<"\n">>,
         func |-> <<"F", "u", "n", "c", "t", "i", "o", "n">>, sep2 |-> <<" ", "/", "*", "s", "*", "/", " ">>, name |-> <<<<"g", "2">>, <<"f">>>>,
         args |-> <<[id |-> <<"a">>, written |-> <<"a">>, ty |-> <<"i", "n", "t">>]>>,
         body |-> <<" ", "R", "E", "T", "U", "R", "N", " ", "1", ";", " ">>]

Terminators == {<<>>, <<";">>, <<";", ";">>, <<" ", "/", "*", "t", "*", "/", ";", "\n">>}

\* what may follow the last terminator: whitespace and comments, or other text
FillerTrailers == {<<>>, <<" ", "\n">>, <<"-", "-", " ", "t", "\n">>}

TextTrailers == {<<"x">>, <<"D", "E", "F", "I", "N", "E">>}

Trailers == FillerTrailers \cup TextTrailers

Bodies == {<<>>, <<" ", "x", ";", " ">>, <<"I", "F", " ", "t", "r", "u", "e", " ", "{", "R", "E", "T", "U", "R", "N", " ", "1", ";", "}">>, <<"/", "*", " ", "{", "}", " ", "*", "/">>,
           <<"-", "-", " ", "}", "\n">>, <<"#", " ", "c">>, <<" ", "/", "*", " ", "}", " ", "*", "/", " ", "x">>,
           <<"x", " ", "{", "y", "}", ";", " ", "z">>}

Separations == {<<>>, <<" ">>, <<"\n">>, <<"/", "*", "s", "*", "/">>, <<" ", "-", "-", " ", "s", "\n">>}

Leads == SeqsUpTo(Comments, 0, MaxComments)

\* the leading comments the statements of a list are written with
ListLeads == {<<>>,
              <<[style |-> "dash", text |-> <<" ", "a", " ">>]>>,
              <<[style |-> "slash", text |-> <<"b">>], [style |-> "hash", text |-> <<" ", "c">>]>>,
              <<[style |-> "block", text |-> <<" ", "d", " ">>]>>}

Item(st, term) == [st |-> st, term |-> term]

FilesOf(items, trails) ==
    {[items |-> is, trail |-> tr] : is \in SeqsUpTo(items, 0, MaxStatements), tr \in trails}

\* lists of commented statements, each closed by `;` and a line break
CommentFiles ==
    FilesOf({Item([Plain EXCEPT !.lead = l], <<";", "\n">>) : l \in ListLeads}, {<<>>})

\* lists of two kinds of statement under every terminator and trailer
TerminatorFiles ==
    FilesOf({Item([Plain EXCEPT !.name = <<n>>], t) : n \in Segments, t \in Terminators},
            Trailers)

\* lists of statements of every body
BodyFiles ==
    FilesOf({Item([Plain EXCEPT !.body = b], <<";">>) : b \in Bodies}, {<<>>})

Files == CommentFiles \cup TerminatorFiles \cup BodyFiles

\* single statements: Plain and Rich with one part varied
Statements ==
    UNION {
        {[b EXCEPT !.lead = x] : x \in Leads}
        \cup {[b EXCEPT !.name = x] : x \in SeqsUpTo(Segments, 1, MaxSegments)}
        \cup {[b EXCEPT !.args = x] : x \in SeqsUpTo(Args, 0, MaxArgs)}
        \cup {[b EXCEPT !.body = x] : x \in Bodies}
        \cup {[b EXCEPT !.sep1 = x] : x \in Separations}
        \cup {[b EXCEPT !.sep2 = x] : x \in Separations}
        : b \in {Plain, Rich}}

----------------------------------------------------------------------------
(* The statement list of a file: parser::functions, and the same under     *)
(* all_consuming as parse_surrealql_file applies it.                       *)

Init ==
    /\ input \in Files
    /\ phase = "src"
    /\ result = <<>>

Functions ==
    /\ phase = "src"
    /\ phase' = "functions"
    /\ result' = functions(FileText(input), 1)
    /\ UNCHANGED input

ParseFile ==
    /\ phase = "src"
    /\ phase' = "file"
    /\ result' = parse_surrealql_file(FileText(input))
    /\ UNCHANGED input

Next == Functions \/ ParseFile

Spec == Init /\ [][Next]_vars

\* a terminator that holds a `;`
Terminated(t) == \E k \in 1..Len(t) : t[k] = ";"

AllTerminated(f) == \A k \in 1..Len(f.items) : Terminated(f.items[k].term)

\* a body without braces and without the start of a comment
Inert(b) == \A k \in 1..Len(b) : b[k] \notin {"{", "}", "#", "/", "-"}

\* the keywords and the prefix of a statement are written apart
Separated(st) == st.sep1 # <<>> /\ st.sep2 # <<>>

\* one or more statements of inert bodies, each followed by its terminator
WellWritten(f) ==
    /\ Len(f.items) >= 1
    /\ AllTerminated(f)
    /\ \A k \in 1..Len(f.items) : Separated(f.items[k].st) /\ Inert(f.items[k].st.body)

\* where the text after the last terminator starts
TrailStart(f) == Len(FileText(f)) - Len(f.trail) + 1

\* C1: every statement of a list parsed by functions, the first one and each
\* one after a terminator, has the comments written before its DEFINE as its
\* comments, trimmed and in source order
C1_CommentsCaptured ==
    (phase = "functions" /\ WellWritten(input)) =>
        /\ result.ok
        /\ Len(result.val) = Len(input.items)
        /\ \A k \in 1..Len(input.items) :
            result.val[k].comments = Meant(input.items[k].st).comments

\* the comment written between a terminator and the next DEFINE is lost
C1_Swallowed ==
    /\ phase = "functions"
    /\ Len(input.items) = 2
    /\ input.items[1].st.lead = <<[style |-> "dash", text |-> <<" ", "a", " ">>]>>
    /\ input.items[2].st.lead = <<[style |-> "block", text |-> <<" ", "d", " ">>]>>
    /\ result.ok
    /\ Len(result.val) = 2
    /\ result.val[1].comments = <<<<"a">>>>
    /\ result.val[2].comments = <<>>

\* C3: under all_consuming a list followed by text other than whitespace and
\* comments fails as a whole, without a partial list, whatever precedes the
\* text; followed by whitespace and comments only, a well written list parses
C3_TrailingTextFails ==
    phase = "file" =>
        /\ input.trail \in TextTrailers => (~result.ok /\ result.val = <<>>)
        /\ (WellWritten(input) /\ input.trail \in FillerTrailers) =>
            (result.ok /\ Len(result.val) = Len(input.items))

\* two valid statements and their terminators, then text: the error is at the text
C3_Residual ==
    /\ phase = "file"
    /\ WellWritten(input)
    /\ Len(input.items) = 2
    /\ input.trail = <<"x">>
    /\ ~result.ok
    /\ result.pos = TrailStart(input)

\* C4: functions accepts one or more statements each followed by a run of one
\* or more `;` with whitespace and comments around it, rejects a list whose
\* last statement has no `;` after it, and rejects a list of no statement
C4_Terminators ==
    phase = "functions" =>
        /\ WellWritten(input) => (result.ok /\ Len(result.val) = Len(input.items))
        /\ (Len(input.items) >= 1 /\ ~Terminated(input.items[Len(input.items)].term)) => ~result.ok
        /\ Len(input.items) = 0 => ~result.ok

\* a run of two `;` after the first statement, a commented `;` after the second
C4_Runs ==
    /\ phase = "functions"
    /\ Len(input.items) = 2
    /\ input.items[1].term = <<";", ";">>
    /\ input.items[2].term = <<" ", "/", "*", "t", "*", "/", ";", "\n">>
    /\ result.ok
    /\ Len(result.val) = 2

\* C5: the list functions returns has one entry for each definition, in source
\* order, with the path and the parameters of that definition, and two
\* definitions written alike have equal entries
C5_OneEntryEach ==
    (phase = "functions" /\ WellWritten(input)) =>
        /\ result.ok
        /\ Len(result.val) = Len(input.items)
        /\ \A k \in 1..Len(input.items) :
            /\ result.val[k].name = input.items[k].st.name
            /\ result.val[k].args = Meant(input.items[k].st).args
        /\ \A j, k \in 1..Len(input.items) :
            input.items[j].st = input.items[k].st => result.val[j] = result.val[k]

\* the same commented definition twice: there are two entries, in order, and
\* they differ
C5_Unequal ==
    /\ phase = "functions"
    /\ Len(input.items) = 2
    /\ input.items[1].st = input.items[2].st
    /\ input.items[1].st.lead # <<>>
    /\ result.ok
    /\ Len(result.val) = 2
    /\ result.val[1].name = result.val[2].name
    /\ result.val[1].args = result.val[2].args
    /\ result.val[1] # result.val[2]

\* the first place from `from` on where t holds the character c, or 0
FirstIndex(t, from, c) ==
    IF \E k \in from..Len(t) : t[k] = c
    THEN CHOOSE k \in from..Len(t) : t[k] = c /\ \A j \in from..(k - 1) : t[j] # c
    ELSE 0

\* the body holds an opening brace and, after it, a closing one
HasBracePair(b) == \E i, j \in 1..Len(b) : i < j /\ b[i] = "{" /\ b[j] = "}"

\* the body from the end of the whitespace and comments that follow its
\* opening brace
AfterFiller(b) == SubSeq(b, mightbespace(b \o <<"}">>, 1).pos, Len(b))

\* after that whitespace and those comments the body holds a brace pair, and
\* after the pair's closing brace neither the start of a comment nor a DEFINE
NestedClosed(b) ==
    LET r == AfterFiller(b)
        c == FirstIndex(r, 1, "}")
    IN  /\ c # 0
        /\ \E i \in 1..(c - 1) : r[i] = "{"
        /\ \A k \in (c + 1)..Len(r) : r[k] \notin {"#", "/", "-", "D", "d"}

\* C7 as stated: a list in which some body holds a nested brace pair is never
\* parsed by the entry point
C7_NestedNeverParses ==
    (phase = "file" /\ \E k \in 1..Len(input.items) : HasBracePair(input.items[k].st.body))
        => ~result.ok

\* C7: a list in which some body holds a nested brace pair after the whitespace
\* and comments that follow its opening brace, with no comment and no DEFINE
\* after the pair, and in which the bodies of the statements before it hold no
\* brace and no comment, is never parsed by the entry point
C7_NestedClosedNeverParses ==
    (phase = "file" /\ \E k \in 1..Len(input.items) :
            /\ NestedClosed(input.items[k].st.body)
            /\ \A j \in 1..(k - 1) : Inert(input.items[j].st.body))
        => ~result.ok

\* `DEFINE FUNCTION fn::f() {IF true {RETURN 1;}};` fails at the body's own
\* closing brace
C7_OuterBrace ==
    /\ phase = "file"
    /\ Len(input.items) = 1
    /\ input.items[1].st.body = <<"I", "F", " ", "t", "r", "u", "e", " ", "{", "R", "E", "T", "U", "R", "N", " ", "1", ";", "}">>
    /\ ~result.ok
    /\ result.pos = Len(StatementText(input.items[1].st))

----------------------------------------------------------------------------
(* One statement: parser::function *)

InitStatement ==
    /\ input \in Statements
    /\ phase = "src"
    /\ result = <<>>

Function ==
    /\ phase = "src"
    /\ phase' = "function"
    /\ result' = function(StatementText(input), 1)
    /\ UNCHANGED input

NextStatement == Function

SpecStatement == InitStatement /\ [][NextStatement]_vars

(* Properties of one statement *)

\* where the opening brace of the body is written
BodyOpen(st) == Len(StatementHead(st)) + 1

\* where the text after the keyword FUNCTION starts
KeywordEnd(st) ==
    Len(Concat([k \in 1..Len(st.lead) |-> CommentText(st.lead[k])])
            \o st.define \o st.sep1 \o st.func) + 1

\* C2: function yields the leading comments, trimmed and in source order (none:
\* the empty list), the segments of the path after `fn::` and the (identifier,
\* kind) pairs of the parameters, whatever the body is
C2_FunctionYields ==
    phase = "function" =>
        /\ result.ok => result.val = Meant(input)
        /\ (Separated(input) /\ Inert(input.body)) => result.ok

\* a statement with two comments, a path of two segments, a parameter and a body
C2_RichYield ==
    /\ phase = "function"
    /\ input = Rich
    /\ result.ok
    /\ result.pos = Len(StatementText(Rich)) + 1
    /\ result.val = [comments |-> <<<<"a">>, <<"d">>>>,
                     name |-> <<<<"g", "2">>, <<"f">>>>,
                     args |-> << <<<<"a">>, [kind |-> <<"i", "n", "t">>]>> >>]

\* C6 as stated: the body block ends at the first closing brace after its
\* opening brace, whatever the body holds
C6_FirstBrace ==
    (phase = "function" /\ Separated(input)) =>
        /\ result.ok
        /\ result.pos = FirstIndex(StatementText(input), BodyOpen(input) + 1, "}") + 1

\* C6: the body block ends at the first closing brace after the whitespace and
\* comments that follow its opening brace, and the statement is rejected when
\* there is none
C6_FirstBraceAfterFiller ==
    (phase = "function" /\ Separated(input)) =>
        LET t == StatementText(input)
            c == FirstIndex(t, mightbespace(t, BodyOpen(input) + 1).pos, "}")
        IN  IF c = 0 THEN ~result.ok
            ELSE result.ok /\ result.pos = c + 1 /\ result.val = Meant(input)

\* a closing brace in a comment that follows the opening brace is passed over
C6_BraceInComment ==
    /\ phase = "function"
    /\ input.body = <<"-", "-", " ", "}", "\n">>
    /\ result.ok
    /\ FirstIndex(StatementText(input), BodyOpen(input) + 1, "}") = BodyOpen(input) + 4
    /\ result.pos = BodyOpen(input) + 7

\* C9 as stated: a statement where `fn::` follows FUNCTION with nothing in
\* between is accepted
C9_NoSeparationNeeded ==
    (phase = "function" /\ input.sep1 # <<>> /\ input.sep2 = <<>> /\ Inert(input.body))
        => result.ok

\* C9: a statement is accepted when whitespace or a comment stands between
\* FUNCTION and `fn::`, and rejected when nothing does
C9_SeparationNeeded ==
    (phase = "function" /\ input.sep1 # <<>> /\ Inert(input.body)) =>
        (result.ok <=> input.sep2 # <<>>)

\* `DEFINE FUNCTIONfn::f() {}` is rejected where the keyword ends
C9_Rejected ==
    /\ phase = "function"
    /\ input = [Plain EXCEPT !.sep2 = <<>>]
    /\ ~result.ok
    /\ result.pos = KeywordEnd(input)

----------------------------------------------------------------------------
(* Whitespace and comments put between the tokens of a list.  The list is  *)
(* one statement of a path of two segments and two parameters, a           *)
(* terminator of two `;` and a second statement; the gap names the two     *)
(* tokens the text is put between.                                         *)

Gaps == {"DEFINE FUNCTION", "FUNCTION fn", "fn:: path", "path ::", ":: path", "path (",
         "( $", "$ name", "name :", ": kind", "kind ,", ", $", "kind )", ") {", "} ;",
         "; ;", "; DEFINE"}

Fills == {<<" ">>, <<"\n">>, <<"/", "*", "i", "*", "/">>, <<"-", "-", " ", "i", "\n">>,
          <<" ", "#", "i", "\n", " ">>}

InsertStatements ==
    {[b EXCEPT !.name = <<<<"g", "2">>, <<"f">>>>, !.args = a] :
        b \in {Plain, Rich}, a \in {x \in SeqsUpTo(Args, 2, 2) : x[1] # x[2]}}

\* the list with the text fill put in the gap named at (no gap has the name "")
InsertedText(st, at, fill) ==
    LET G(gap) == IF gap = at THEN fill ELSE <<>>
    IN  Concat([k \in 1..Len(st.lead) |-> CommentText(st.lead[k])])
            \o st.define \o G("DEFINE FUNCTION") \o st.sep1 \o st.func \o st.sep2 \o G("FUNCTION fn")
            \o <<"f", "n", ":", ":">> \o G("fn:: path") \o st.name[1] \o G("path ::")
            \o <<":", ":">> \o G(":: path") \o st.name[2] \o G("path (")
            \o <<"(">> \o G("( $") \o <<"$">> \o G("$ name") \o st.args[1].written \o G("name :")
            \o <<":">> \o G(": kind") \o <<" ">> \o st.args[1].ty \o G("kind ,")
            \o <<",">> \o G(", $") \o <<" ">> \o ArgText(st.args[2]) \o G("kind )")
            \o <<")">> \o G(") {") \o <<" ", "{">> \o st.body \o <<"}">> \o G("} ;")
            \o <<";">> \o G("; ;") \o <<";">> \o G("; DEFINE")
            \o StatementText(Plain) \o <<";", "\n">>

InitInsert ==
    /\ input \in [st : InsertStatements, at : Gaps, fill : Fills]
    /\ phase = "src"
    /\ result = <<>>

Insert ==
    /\ phase = "src"
    /\ phase' = "inserted"
    /\ result' = [orig |-> functions(InsertedText(input.st, "", <<>>), 1),
                  ins  |-> functions(InsertedText(input.st, input.at, input.fill), 1)]
    /\ UNCHANGED input

NextInsert == Insert

SpecInsert == InitInsert /\ [][NextInsert]_vars

\* the gaps where the grammar takes whitespace and comments
SlotGaps == {"DEFINE FUNCTION", "FUNCTION fn", "path (", "( $", "name :", ": kind", "kind ,",
             ", $", "kind )", ") {", "} ;"}

\* the gaps where it takes none
TightGaps == {"fn:: path", "path ::", ":: path", "$ name", "; ;"}

\* C8 as stated: whitespace or a comment put between any two tokens of an
\* accepted list gives an accepted list with an equal result
C8_AnyGap ==
    (phase = "inserted" /\ result.orig.ok) =>
        (result.ins.ok /\ result.ins.val = result.orig.val)

\* C8: whitespace or a comment put between two tokens of a statement, other
\* than inside its path and after the `$` of a parameter, or between the
\* statement and its terminator, gives an accepted list with an equal result;
\* put inside the path, after `$` or between two `;`, it does not
C8_SlotGaps ==
    phase = "inserted" =>
        /\ result.orig.ok
        /\ Len(result.orig.val) = 2
        /\ input.at \in SlotGaps => (result.ins.ok /\ result.ins.val = result.orig.val)
        /\ input.at \in TightGaps => ~(result.ins.ok /\ result.ins.val = result.orig.val)

\* a line comment put between the name of a parameter and its colon
C8_CommentInSlot ==
    /\ phase = "inserted"
    /\ input.at = "name :"
    /\ input.fill = <<"-", "-", " ", "i", "\n">>
    /\ result.ins.ok
    /\ Len(result.ins.val) = 2
    /\ result.ins.val = result.orig.val

----------------------------------------------------------------------------
(* An identifier written by Display and read back by ident *)

MaxIdentLen == 3

IdentChars == {"a", "n", "1", "_", " ", BACKTICK, BACKSLASH}

InitIdent ==
    /\ input \in SeqsUpTo(IdentChars, 0, MaxIdentLen)
    /\ phase = "src"
    /\ result = <<>>

\* format!("{}", Ident(input))
Encode ==
    /\ phase = "src"
    /\ phase' = "encoded"
    /\ result' = IdentDisplay(input)
    /\ UNCHANGED input

\* ident(&encoded)
Decode ==
    /\ phase = "encoded"
    /\ phase' = "decoded"
    /\ result' = [text |-> result, parsed |-> ident(result, 1)]
    /\ UNCHANGED input

NextIdent == Encode \/ Decode

SpecIdent == InitIdent /\ [][NextIdent]_vars

\* t has a character outside the bare class
NotBare(t) == \E k \in 1..Len(t) : ~val_char(t[k])

\* t with a backslash put before each backtick
Escaped(t) ==
    Concat([k \in 1..Len(t) |-> IF t[k] = BACKTICK THEN <<BACKSLASH, BACKTICK>> ELSE <<t[k]>>])

\* C10: a string with a character outside the bare class is written as itself
\* between backticks with each backtick of it escaped, and ident reads the
\* whole of that text back as the string
C10_QuotedRoundTrip ==
    (phase = "decoded" /\ NotBare(input)) =>
        /\ result.text = <<BACKTICK>> \o Escaped(input) \o <<BACKTICK>>
        /\ result.parsed.ok
        /\ result.parsed.pos = Len(result.text) + 1
        /\ result.parsed.val = input

\* a backslash before n is written as it is and read back as a line feed
C10_Lost ==
    /\ phase = "decoded"
    /\ input = <<"a", BACKSLASH, "n">>
    /\ result.text = <<BACKTICK, "a", BACKSLASH, "n", BACKTICK>>
    /\ result.parsed.ok
    /\ result.parsed.val = <<"a", "\n">>

\* the string is not empty and all of its characters are of the bare class
Bare(t) == t # <<>> /\ \A k \in 1..Len(t) : val_char(t[k])

AllDigits(t) == \A k \in 1..Len(t) : is_digit(t[k])

\* C11: a bare string that is not all digits is written as itself and read
\* back whole by ident as itself; a string of digits only, or one with a
\* character outside the bare class, is written between backticks
C11_BareRoundTrip ==
    (phase = "decoded" /\ input # <<>>) =>
        /\ (Bare(input) /\ ~AllDigits(input)) =>
              /\ result.text = input
              /\ result.parsed.ok
              /\ result.parsed.pos = Len(input) + 1
              /\ result.parsed.val = input
        /\ (AllDigits(input) \/ NotBare(input)) =>
              /\ Len(result.text) >= Len(input) + 2
              /\ result.text[1] = BACKTICK
              /\ result.text[Len(result.text)] = BACKTICK

\* a bare name with a digit after its first letter
C11_BareKept ==
    /\ phase = "decoded"
    /\ input = <<"a", "1", "_">>
    /\ result.text = input
    /\ result.parsed.val = input

----------------------------------------------------------------------------
(* The three written forms of one name, read by ident and by table and     *)
(* written back by Display                                                 *)

FormChars == {"a", "Z", "1", "_"}

Contents == SeqsUpTo(FormChars, 1, MaxIdentLen)

Backticked(c) == <<BACKTICK>> \o c \o <<BACKTICK>>

Bracketed(c) == <<BRACKET_L>> \o c \o <<BRACKET_R>>

InitForms ==
    /\ input \in Contents
    /\ phase = "src"
    /\ result = <<>>

\* ident on each of the three forms
ReadIdent ==
    /\ phase = "src"
    /\ phase' = "read"
    /\ result' = [as |-> "ident", bare |-> ident(input, 1),
                  backtick |-> ident(Backticked(input), 1),
                  brackets |-> ident(Bracketed(input), 1)]
    /\ UNCHANGED input

\* table on each of the three forms
ReadTable ==
    /\ phase = "src"
    /\ phase' = "read"
    /\ result' = [as |-> "table", bare |-> table(input, 1),
                  backtick |-> table(Backticked(input), 1),
                  brackets |-> table(Bracketed(input), 1)]
    /\ UNCHANGED input

\* format!("{}", v) of each of the three values
WriteBack ==
    /\ phase = "read"
    /\ result.bare.ok /\ result.backtick.ok /\ result.brackets.ok
    /\ phase' = "written"
    /\ LET Display(v) == IF result.as = "ident" THEN IdentDisplay(v) ELSE TableDisplay(v)
       IN  result' = [as |-> result.as,
                      vals |-> [bare |-> result.bare.val, backtick |-> result.backtick.val,
                                brackets |-> result.brackets.val],
                      ends |-> [bare |-> result.bare.pos, backtick |-> result.backtick.pos,
                                brackets |-> result.brackets.pos],
                      texts |-> [bare |-> Display(result.bare.val),
                                 backtick |-> Display(result.backtick.val),
                                 brackets |-> Display(result.brackets.val)]]
    /\ UNCHANGED input

NextForms == ReadIdent \/ ReadTable \/ WriteBack

SpecForms == InitForms /\ [][NextForms]_vars

\* C12 as stated: the three forms of a bare-class content are read to equal
\* values, and each value is written back as the bare content
C12_FormsWrittenBare ==
    phase = "written" =>
        /\ result.vals.bare = result.vals.backtick
        /\ result.vals.bare = result.vals.brackets
        /\ result.texts.bare = input
        /\ result.texts.backtick = input
        /\ result.texts.brackets = input

\* C12: the three forms of a bare-class content are read whole, by ident and
\* by table, to the same value, the content; the three values are written back
\* as the same text, which is the bare content unless the content is all
\* digits, and then the content between backticks
C12_FormsEqual ==
    /\ phase = "read" => (result.bare.ok /\ result.backtick.ok /\ result.brackets.ok)
    /\ phase = "written" =>
        /\ result.vals.bare = input
        /\ result.vals.backtick = input
        /\ result.vals.brackets = input
        /\ result.ends.bare = Len(input) + 1
        /\ result.ends.backtick = Len(input) + 3
        /\ result.ends.brackets = Len(input) + 3
        /\ result.texts.backtick = result.texts.bare
        /\ result.texts.brackets = result.texts.bare
        /\ result.texts.bare = IF AllDigits(input) THEN Backticked(input) ELSE input

\* a table name read from its bracket form and written back bare
C12_QuotingDropped ==
    /\ phase = "written"
    /\ result.as = "table"
    /\ input = <<"a", "1">>
    /\ result.vals.brackets = <<"a", "1">>
    /\ result.texts.brackets = <<"a", "1">>

----------------------------------------------------------------------------
(* file.rs: resolve_path.  A template is resolved one placeholder at a     *)
(* time; result holds the locals of the loop (unprocessed, resolved) and   *)
(* the names the lookup was called with, then the value returned.          *)

None == [some |-> FALSE]

Some(v) == [some |-> TRUE, val |-> v]

\* parse_identifier accepting a digit at every place
identifier_char_any(c, calls) == c = "_" \/ c \in Lowers \cup Uppers \cup Digits

\* the closure parse_identifier gives to take_while, at its calls-th call
identifier_char(c, calls) ==
    \/ c = "_"
    \/ c \in Lowers \cup Uppers
    \/ (c \in Digits /\ calls > 1)

RECURSIVE take_while(_, _)
\* take_while(text, closure): the index the loop ends with, from index on
take_while(text, index) ==
    IF index < Len(text) /\ identifier_char(text[index + 1], index + 1)
    THEN take_while(text, index + 1)
    ELSE index

parse_identifier(text) ==
    LET index == take_while(text, 0)
    IN  IF index = 0 THEN None
        ELSE Some([head |-> SubSeq(text, 1, index), tail |-> SubSeq(text, index + 1, Len(text))])

\* str::find: the first index of c in t, or 0
find(t, c) == FirstIndex(t, 1, c)

\* the lookup: env is a set of [name, value]
get_env(env, variable) ==
    IF \E e \in env : e.name = variable
    THEN Some((CHOOSE e \in env : e.name = variable).value)
    ELSE None

\* MissingVariable made to keep the sigil
MissingVariable_sigil(variable) == [kind |-> "MissingVariable", variable |-> <<"$">> \o variable]

MissingVariable(variable) == [kind |-> "MissingVariable", variable |-> variable]

\* UnableToParseVariable made to start after the sigil
UnableToParseVariable_after(rest) == [kind |-> "UnableToParseVariable", rest |-> Tail(rest)]

UnableToParseVariable(rest) == [kind |-> "UnableToParseVariable", rest |-> rest]

\* the locals after a placeholder was resolved, with the value put back before
\* the rest to be scanned again
substituted_again(st, head, variable, value, rest) ==
    [unprocessed |-> value \o rest,
     resolved    |-> st.resolved \o head,
     looked      |-> Append(st.looked, variable)]

\* the locals after a placeholder was resolved, the lookup called a second time
substituted_twice(st, head, variable, value, rest) ==
    [unprocessed |-> rest,
     resolved    |-> st.resolved \o head \o value,
     looked      |-> st.looked \o <<variable, variable>>]

\* the locals after a placeholder was resolved: resolved.push_str(head),
\* resolved.push_str(&value), unprocessed = rest
substituted(st, head, variable, value, rest) ==
    [unprocessed |-> rest,
     resolved    |-> st.resolved \o head \o value,
     looked      |-> Append(st.looked, variable)]

\* the path made of what was resolved only
resolved_path_short(st) == st.resolved

\* resolved.push_str(unprocessed); PathBuf::from(resolved)
resolved_path(st) == st.resolved \o st.unprocessed

MaxTemplateLen == 4

TemplateChars == {"$", "A", "_", "1", "/"}

\* templates of two placeholders with text before, between and after them
LongTemplates == {<<"/", "$", "A", "/", "$", "_", "/">>, <<"$", "A", "1", "/", "$", "A">>,
                  <<"/", "$", "A", "/", "$", "A", "1">>}

Templates == SeqsUpTo(TemplateChars, 0, MaxTemplateLen) \cup LongTemplates

Envs == {{},
         {[name |-> <<"A">>, value |-> <<"$", "_">>], [name |-> <<"_">>, value |-> <<"/">>]},
         {[name |-> <<"A">>, value |-> <<"$", "A">>]},
         {[name |-> <<"A">>, value |-> <<"1">>], [name |-> <<"A", "1">>, value |-> <<>>],
          [name |-> <<"_", "A">>, value |-> <<"/", "A">>]}}

InitResolve ==
    /\ input \in [raw : Templates, env : Envs]
    /\ phase = "src"
    /\ result = <<>>

Enter ==
    /\ phase = "src"
    /\ phase' = "loop"
    /\ result' = [unprocessed |-> input.raw, resolved |-> <<>>, looked |-> <<>>]
    /\ UNCHANGED input

\* where the loop is: the `$` found, the text before it and from it on
dollar_sign == find(result.unprocessed, "$")

head == SubSeq(result.unprocessed, 1, dollar_sign - 1)

tail == SubSeq(result.unprocessed, dollar_sign, Len(result.unprocessed))

Substitute ==
    /\ phase = "loop"
    /\ dollar_sign # 0
    /\ LET id == parse_identifier(Tail(tail))
       IN  /\ id.some
           /\ get_env(input.env, id.val.head).some
           /\ result' = substituted(result, head, id.val.head,
                                    get_env(input.env, id.val.head).val, id.val.tail)
    /\ UNCHANGED <<input, phase>>

Missing ==
    /\ phase = "loop"
    /\ dollar_sign # 0
    /\ LET id == parse_identifier(Tail(tail))
       IN  /\ id.some
           /\ ~get_env(input.env, id.val.head).some
           /\ result' = [ok |-> FALSE, err |-> MissingVariable(id.val.head),
                         looked |-> Append(result.looked, id.val.head)]
    /\ phase' = "done"
    /\ UNCHANGED input

Malformed ==
    /\ phase = "loop"
    /\ dollar_sign # 0
    /\ ~parse_identifier(Tail(tail)).some
    /\ result' = [ok |-> FALSE, err |-> UnableToParseVariable(tail), looked |-> result.looked]
    /\ phase' = "done"
    /\ UNCHANGED input

Return ==
    /\ phase = "loop"
    /\ dollar_sign = 0
    /\ result' = [ok |-> TRUE, path |-> resolved_path(result), looked |-> result.looked]
    /\ phase' = "done"
    /\ UNCHANGED input

NextResolve == Enter \/ Substitute \/ Missing \/ Malformed \/ Return

SpecResolve == InitResolve /\ [][NextResolve]_vars

\* t is an identifier: a letter or underscore, then letters, digits, underscores
IsIdentifier(t) ==
    /\ t # <<>>
    /\ t[1] \notin Digits
    /\ \A k \in 1..Len(t) : t[k] \in Lowers \cup Uppers \cup Digits \cup {"_"}

\* the length of the longest identifier that starts at i + 1 of t, or 0
NameLen(t, i) ==
    CHOOSE n \in 0..(Len(t) - i) :
        /\ n = 0 \/ IsIdentifier(SubSeq(t, i + 1, i + n))
        /\ \A m \in (n + 1)..(Len(t) - i) : ~IsIdentifier(SubSeq(t, i + 1, i + m))

NameAt(t, i) == SubSeq(t, i + 1, i + NameLen(t, i))

\* the places of the `$` of t before place n, in order
Dollars(t, n) == SelectSeq([k \in 1..(n - 1) |-> k], LAMBDA k : t[k] = "$")

\* the names written after the `$` of t before place n, in order
NamesBefore(t, n) == [j \in 1..Len(Dollars(t, n)) |-> NameAt(t, Dollars(t, n)[j])]

\* place k of t is in the name of a placeholder
InName(t, k) == \E i \in 1..(k - 1) : t[i] = "$" /\ k <= i + NameLen(t, i)

Known(env, name) == \E e \in env : e.name = name

ValueOf(env, name) == (CHOOSE e \in env : e.name = name).value

\* t with each placeholder replaced by the value env has for its name
Replaced(t, env) ==
    Concat([k \in 1..Len(t) |->
        IF t[k] = "$" THEN ValueOf(env, NameAt(t, k))
        ELSE IF InName(t, k) THEN <<>>
        ELSE <<t[k]>>])

\* the first `$` of t whose name is not an identifier or is not known, or 0
FirstBad(t, env) ==
    LET bad == {i \in 1..Len(t) : t[i] = "$" /\ (NameLen(t, i) = 0 \/ ~Known(env, NameAt(t, i)))}
    IN  IF bad = {} THEN 0 ELSE CHOOSE i \in bad : \A j \in bad : i <= j

\* C13: resolve_path scans the original string only: what is left to scan is
\* always an end of the template, the lookup is called with the names written
\* in the template and no other, and the path returned is the template with
\* each placeholder replaced by its value as it is, a `$NAME` in a value kept
C13_NotRecursive ==
    /\ phase = "loop" =>
          \E k \in 1..(Len(input.raw) + 1) :
              /\ result.unprocessed = SubSeq(input.raw, k, Len(input.raw))
              /\ result.looked = NamesBefore(input.raw, k)
    /\ (phase = "done" /\ result.ok) =>
          /\ result.path = Replaced(input.raw, input.env)
          /\ result.looked = NamesBefore(input.raw, Len(input.raw) + 1)

\* a value that holds a placeholder is in the path as it is
C13_ValueKept ==
    /\ phase = "done"
    /\ input.raw = <<"/", "$", "A", "/">>
    /\ Known(input.env, <<"_">>)
    /\ result.ok
    /\ result.path = <<"/", "$", "_", "/">>
    /\ result.looked = <<<<"A">>>>

\* C14: when the first placeholder of the template that cannot be resolved
\* has a name the lookup does not know, resolve_path fails with MissingVariable
\* of that name, without the `$`, and returns no path, the placeholders before
\* it resolved or not
C14_MissingVariable ==
    phase = "done" =>
        LET i == FirstBad(input.raw, input.env)
        IN  (i # 0 /\ NameLen(input.raw, i) > 0) =>
                /\ ~result.ok
                /\ result.err = [kind |-> "MissingVariable", variable |-> NameAt(input.raw, i)]
                /\ "path" \notin DOMAIN result

\* a name that is not known after one that was resolved
C14_AfterResolved ==
    /\ phase = "done"
    /\ input.raw = <<"$", "A", "$", "_">>
    /\ ~result.ok
    /\ result.err.kind = "MissingVariable"
    /\ result.err.variable = <<"_">>
    /\ result.looked = <<<<"A">>, <<"_">>>>

\* C15: when the first placeholder of the template that cannot be resolved is
\* a `$` with no identifier after it, resolve_path fails with
\* UnableToParseVariable whose rest is the template from that `$` on, the
\* lookup is not called for it, and no path is returned
C15_UnableToParse ==
    phase = "done" =>
        LET i == FirstBad(input.raw, input.env)
        IN  (i # 0 /\ NameLen(input.raw, i) = 0) =>
                /\ ~result.ok
                /\ result.err = [kind |-> "UnableToParseVariable",
                                 rest |-> SubSeq(input.raw, i, Len(input.raw))]
                /\ result.looked = NamesBefore(input.raw, i)
                /\ "path" \notin DOMAIN result

\* a `$` before a digit, after a placeholder that was resolved
C15_DigitFirst ==
    /\ phase = "done"
    /\ input.raw = <<"$", "A", "$", "1">>
    /\ ~result.ok
    /\ result.err.kind = "UnableToParseVariable"
    /\ result.err.rest = <<"$", "1">>
    /\ result.looked = <<<<"A">>>>

\* C17: a template without `$` is returned as it is, and the lookup is never
\* called
C17_NoPlaceholder ==
    (\A k \in 1..Len(input.raw) : input.raw[k] # "$") =>
        /\ phase = "loop" => result.looked = <<>>
        /\ phase = "done" => (result.ok /\ result.path = input.raw /\ result.looked = <<>>)

C17_Unchanged ==
    /\ phase = "done"
    /\ input.raw = <<"/", "A", "_", "1">>
    /\ result.ok
    /\ result.path = <<"/", "A", "_", "1">>
    /\ result.looked = <<>>

----------------------------------------------------------------------------
(* file.rs: parse_identifier applied to a text *)

InitIdentifier ==
    /\ input \in Templates
    /\ phase = "src"
    /\ result = <<>>

ParseIdentifier ==
    /\ phase = "src"
    /\ phase' = "parsed"
    /\ result' = parse_identifier(input)
    /\ UNCHANGED input

NextIdentifier == ParseIdentifier

SpecIdentifier == InitIdentifier /\ [][NextIdentifier]_vars

\* C16: parse_identifier returns the longest identifier the text starts with (a
\* letter or underscore, then letters, digits and underscores) and the rest
\* of the text, the two making the text; it returns None when the text starts
\* with no identifier, as when it starts with a digit
C16_LongestIdentifier ==
    phase = "parsed" =>
        IF NameLen(input, 0) = 0
        THEN result = None
        ELSE /\ result.some
             /\ result.val.head = SubSeq(input, 1, NameLen(input, 0))
             /\ result.val.head \o result.val.tail = input

\* a digit taken after the first letter, the name ended by another character
C16_DigitInside ==
    /\ phase = "parsed"
    /\ input = <<"A", "1", "_", "/">>
    /\ result = Some([head |-> <<"A", "1", "_">>, tail |-> <<"/">>])

----------------------------------------------------------------------------
(* comment.rs: mightbespace, shouldbespace and mightbecomment applied to   *)
(* a text                                                                  *)

MaxSpaceLen == 4

SpaceChars == {" ", "\n", "/", "*", "-", "#", "x"}

InitSpace ==
    /\ input \in SeqsUpTo(SpaceChars, 0, MaxSpaceLen)
    /\ phase = "src"
    /\ result = <<>>

MightBeSpace ==
    /\ phase = "src"
    /\ phase' = "mightbespace"
    /\ result' = mightbespace(input, 1)
    /\ UNCHANGED input

ShouldBeSpace ==
    /\ phase = "src"
    /\ phase' = "shouldbespace"
    /\ result' = shouldbespace(input, 1)
    /\ UNCHANGED input

MightBeComment ==
    /\ phase = "src"
    /\ phase' = "mightbecomment"
    /\ result' = mightbecomment(input, 1)
    /\ UNCHANGED input

NextSpace == MightBeSpace \/ ShouldBeSpace \/ MightBeComment

SpecSpace == InitSpace /\ [][NextSpace]_vars

\* the text starts with a whitespace character
WhiteAtStart(t) == t # <<>> /\ t[1] \in White

\* the text starts with a comment: a line comment, or a block comment that is
\* closed
CommentAtStart(t) ==
    \/ Len(t) >= 1 /\ t[1] = "#"
    \/ Len(t) >= 2 /\ t[1] = "/" /\ t[2] = "/"
    \/ Len(t) >= 2 /\ t[1] = "-" /\ t[2] = "-"
    \/ Len(t) >= 4 /\ t[1] = "/" /\ t[2] = "*"
          /\ \E k \in 3..(Len(t) - 1) : t[k] = "*" /\ t[k + 1] = "/"

----------------------------------------------------------------------------
(* ident applied to quoted names, closed or not *)

QuoteChars == {BACKTICK, BRACKET_L, BRACKET_R, BACKSLASH, "a", "1"}

InitQuoted ==
    /\ input \in SeqsUpTo(QuoteChars, 1, MaxIdentLen + 1)
    /\ phase = "src"
    /\ result = <<>>

ReadQuoted ==
    /\ phase = "src"
    /\ phase' = "read"
    /\ result' = ident(input, 1)
    /\ UNCHANGED input

NextQuoted == ReadQuoted

SpecQuoted == InitQuoted /\ [][NextQuoted]_vars

\* the text opens with the delimiter open and the delimiter close is not in
\* the rest of it
Unclosed(t, open, close) == t[1] = open /\ \A k \in 2..Len(t) : t[k] # close

\* C19 as stated: ident fails on a backtick or bracket form that is not
\* closed, at the place of the opening delimiter
C19_AtOpening ==
    (phase = "read"
        /\ (Unclosed(input, BACKTICK, BACKTICK) \/ Unclosed(input, BRACKET_L, BRACKET_R)))
        => (~result.ok /\ result.pos = 1)

\* C19: ident fails on a backtick or bracket form that is not closed; for
\* the backtick form the failure is at the place of the opening delimiter,
\* for the bracket form it is at the end of the text, where the closing
\* delimiter is missing
C19_UnclosedFails ==
    phase = "read" =>
        /\ Unclosed(input, BACKTICK, BACKTICK) => (~result.ok /\ result.pos = 1)
        /\ Unclosed(input, BRACKET_L, BRACKET_R) =>
              (~result.ok /\ result.pos = Len(input) + 1)

\* a bracket form left open after one character
C19_BracketAtEnd ==
    /\ phase = "read"
    /\ input = <<BRACKET_L, "a">>
    /\ ~result.ok
    /\ result.pos = 3

----------------------------------------------------------------------------
(* lib.rs: Function::from, the module tree of a list of statements.  The   *)
(* tree Function(rooted, nested) is held as rooted and as nested, a        *)
(* function from the path of each module (the keys from the root down) to  *)
(* the statements of that module (its field 0).                            *)

MaxItems == 3

\* the names of the statements of a list
ItemNames == {<<"f">>, <<"m">>, <<"m", "f">>, <<"m", "g">>, <<"m", "n", "f">>, <<"n", "f">>}

Items == {[comments |-> <<>>, name |-> n, args |-> <<>>] : n \in ItemNames}

\* current.entry(part).or_default(), with the entry set to the default at each call
entry_reset(nested, path) ==
    [p \in DOMAIN nested \cup {path} |-> IF p = path THEN <<>> ELSE nested[p]]

\* current.entry(part).or_default(): the module at path, made when missing
entry_or_default(nested, path) ==
    IF path \in DOMAIN nested THEN nested ELSE nested @@ (path :> <<>>)

RECURSIVE parts(_, _, _)
\* the loop over the parts of the name of item, from part i on (i from 1);
\* current and next_items are those of the module at the first i - 1 parts
parts(nested, item, i) ==
    IF i = Len(item.name)
    THEN [nested EXCEPT ![SubSeq(item.name, 1, i - 1)] = Append(@, item)]
    ELSE parts(entry_or_default(nested, SubSeq(item.name, 1, i)), item, i + 1)

InitTree ==
    /\ input \in SeqsUpTo(Items, 0, MaxItems)
    /\ phase = "src"
    /\ result = <<>>

Start ==
    /\ phase = "src"
    /\ phase' = "loop"
    /\ result' = [rooted |-> <<>>, nested |-> <<>>, next |-> 1]
    /\ UNCHANGED input

PlaceRooted ==
    /\ phase = "loop"
    /\ result.next <= Len(input)
    /\ Len(input[result.next].name) = 1
    /\ result' = [result EXCEPT !.rooted = Append(@, input[result.next]), !.next = @ + 1]
    /\ UNCHANGED <<input, phase>>

PlaceNested ==
    /\ phase = "loop"
    /\ result.next <= Len(input)
    /\ Len(input[result.next].name) # 1
    /\ result' = [result EXCEPT !.nested = parts(@, input[result.next], 1), !.next = @ + 1]
    /\ UNCHANGED <<input, phase>>

Built ==
    /\ phase = "loop"
    /\ result.next > Len(input)
    /\ phase' = "built"
    /\ result' = [rooted |-> result.rooted, nested |-> result.nested]
    /\ UNCHANGED input

NextTree == Start \/ PlaceRooted \/ PlaceNested \/ Built

SpecTree == InitTree /\ [][NextTree]_vars

\* the path of the module of a name
ModuleOf(name) == SubSeq(name, 1, Len(name) - 1)

\* the statements of v whose module has the path, in the order of v
StatementsOf(v, path) == SelectSeq(v, LAMBDA item : ModuleOf(item.name) = path)

\* the paths of the modules on the way to the statements of v
ModulesOf(v) ==
    UNION {{SubSeq(v[k].name, 1, n) : n \in 1..(Len(v[k].name) - 1)} : k \in 1..Len(v)}

\* the statements placed so far
Placed == IF phase = "loop" THEN SubSeq(input, 1, result.next - 1) ELSE input

\* C20: the tree holds every statement once: the statements of one-part names
\* in the root list, each other statement in the list of the module its name
\* leads to, the modules on the way made, and each list in the order of the
\* input
C20_PlacedOnce ==
    phase \in {"loop", "built"} =>
        /\ result.rooted = StatementsOf(Placed, <<>>)
        /\ DOMAIN result.nested = ModulesOf(Placed)
        /\ \A p \in DOMAIN result.nested : result.nested[p] = StatementsOf(Placed, p)

\* a module made under another, the outer one given a statement afterwards
C20_Nested ==
    /\ phase = "built"
    /\ Len(input) = 3
    /\ input[1].name = <<"m", "n", "f">>
    /\ input[2].name = <<"f">>
    /\ input[3].name = <<"m", "g">>
    /\ result.rooted = <<input[2]>>
    /\ result.nested[<<"m">>] = <<input[3]>>
    /\ result.nested[<<"m", "n">>] = <<input[1]>>

----------------------------------------------------------------------------
(* resolve_path as one pass over the template *)

\* the number of `$` in t
DollarCount(t) == Cardinality({k \in 1..Len(t) : t[k] = "$"})

\* C21: resolve_path goes through the template once from left to right: each
\* turn of the loop takes the text before the next `$` as it is, calls the
\* lookup once, with the name after that `$`, puts its value after that text
\* and goes on after the name; the path returned is what was put together
\* followed by the text after the last placeholder, and the lookup was called
\* once for each `$`
C21_OnePass ==
    [][
        /\ ((phase = "loop" /\ phase' = "loop") =>
              LET d == FirstIndex(result.unprocessed, 1, "$")
                  name == NameAt(result.unprocessed, d)
              IN  /\ d # 0
                  /\ name # <<>>
                  /\ Known(input.env, name)
                  /\ result'.looked = Append(result.looked, name)
                  /\ result'.resolved = result.resolved \o SubSeq(result.unprocessed, 1, d - 1)
                                            \o ValueOf(input.env, name)
                  /\ result'.unprocessed = SubSeq(result.unprocessed, d + Len(name) + 1,
                                                  Len(result.unprocessed)))
        /\ ((phase = "loop" /\ phase' = "done" /\ result'.ok) =>
              /\ result'.path = result.resolved \o result.unprocessed
              /\ result'.looked = result.looked
              /\ Len(result'.looked) = DollarCount(input.raw))
    ]_vars

\* two placeholders with text around them, the first one's value a placeholder
C21_TwoPlaceholders ==
    /\ phase = "done"
    /\ input.raw = <<"/", "$", "A", "/", "$", "_", "/">>
    /\ result.ok
    /\ result.looked = <<<<"A">>, <<"_">>>>
    /\ result.path = <<"/", "$", "_", "/", "/", "/">>

\* the loop of resolve_path goes on while it can
SpecResolveFair == SpecResolve /\ WF_vars(NextResolve)

\* C22: resolve_path comes to an end on every template under every lookup:
\* each turn of the loop leaves a shorter end of the template to scan, values
\* are not scanned, and the lookup is called no more often than the template
\* has `$`
C22_Terminates ==
    /\ <>(phase = "done")
    /\ [][(phase = "loop" /\ phase' = "loop") =>
              /\ Len(result'.unprocessed) < Len(result.unprocessed)
              /\ \E k \in 1..(Len(input.raw) + 1) :
                    result'.unprocessed = SubSeq(input.raw, k, Len(input.raw))]_vars
    /\ [](phase \in {"loop", "done"} => Len(result.looked) <= DollarCount(input.raw))

\* a variable whose value is a placeholder of its own name
C22_SelfReference ==
    /\ phase = "done"
    /\ input.env = {[name |-> <<"A">>, value |-> <<"$", "A">>]}
    /\ input.raw = <<"$", "A", "$", "A">>
    /\ result.ok
    /\ result.path = <<"$", "A", "$", "A">>
    /\ result.looked = <<<<"A">>, <<"A">>>>

----------------------------------------------------------------------------
(* The path and the parameters of a statement: function, and functions on  *)
(* the statement closed by `;`, applied to statements of varied paths and  *)
(* parameter lists                                                         *)

\* the segments a path is written with: bare ones, an empty one, quoted ones
NameSegments == Segments \cup {<<>>, <<"F", "_", "9">>, <<BACKTICK, "f", BACKTICK>>,
                               <<BRACKET_L, "f", BRACKET_R>>}

\* parameters, two of them of one name
RepeatedArgs == Args \cup {[id |-> <<"a">>, written |-> <<BACKTICK, "a", BACKTICK>>,
                           ty |-> <<"s", "t", "r", "i", "n", "g">>]}

NamedStatements == {[Plain EXCEPT !.name = n] : n \in SeqsUpTo(NameSegments, 0, MaxSegments)}

ArgStatements == {[Plain EXCEPT !.args = a] : a \in SeqsUpTo(RepeatedArgs, 0, MaxArgs)}

InitHeads ==
    /\ input \in NamedStatements \cup ArgStatements
    /\ phase = "src"
    /\ result = <<>>

\* functions on the statement and its terminator
FunctionsOfOne ==
    /\ phase = "src"
    /\ phase' = "functions"
    /\ result' = functions(StatementText(input) \o <<";">>, 1)
    /\ UNCHANGED input

NextHeads == Function \/ FunctionsOfOne

SpecHeads == InitHeads /\ [][NextHeads]_vars

\* the statements a result holds
Produced == IF phase = "function" THEN <<result.val>> ELSE result.val

\* C23: a statement that function or functions yields has a path of one or
\* more segments, each a non-empty string of letters, digits and underscores,
\* the segments written; a statement whose path has no segment, an empty
\* segment or a quoted segment is rejected
C23_BarePath ==
    phase \in {"function", "functions"} =>
        /\ result.ok <=> (Len(input.name) >= 1 /\ \A k \in 1..Len(input.name) : Bare(input.name[k]))
        /\ result.ok =>
              /\ Len(Produced) = 1
              /\ \A i \in 1..Len(Produced) :
                    /\ Len(Produced[i].name) >= 1
                    /\ \A k \in 1..Len(Produced[i].name) : Bare(Produced[i].name[k])
                    /\ Produced[i].name = input.name

\* a path of two bare segments, with capitals, a digit and an underscore
C23_TwoSegments ==
    /\ phase = "functions"
    /\ input.name = <<<<"F", "_", "9">>, <<"g", "2">>>>
    /\ result.ok
    /\ Len(result.val) = 1
    /\ result.val[1].name = <<<<"F", "_", "9">>, <<"g", "2">>>>

\* C24: the args of a statement are the parameters written between its
\* parentheses, each its name and kind, in the order written: none for an
\* empty list, and two parameters of one name both kept
C24_ArgsAsWritten ==
    (phase \in {"function", "functions"} /\ input \in ArgStatements) =>
        /\ result.ok
        /\ \A i \in 1..Len(Produced) :
              /\ Len(Produced[i].args) = Len(input.args)
              /\ \A k \in 1..Len(input.args) :
                    Produced[i].args[k] = <<input.args[k].id, [kind |-> input.args[k].ty]>>

\* two parameters of the name a, of kinds int and string
C24_SameNameTwice ==
    /\ phase = "function"
    /\ Len(input.args) = 2
    /\ input.args[1].written = <<"a">>
    /\ input.args[2].written = <<BACKTICK, "a", BACKTICK>>
    /\ result.ok
    /\ result.val.args = << <<<<"a">>, [kind |-> <<"i", "n", "t">>]>>,
                            <<<<"a">>, [kind |-> <<"s", "t", "r", "i", "n", "g">>]>> >>

----------------------------------------------------------------------------
(* lib.rs: IncludeFnArgs::parse.  The input is the list of the arguments   *)
(* written between `;`; result holds the locals of the loop (paths,        *)
(* driver, datastore) and the place of the next argument.                  *)

MaxArguments == 3

AsIs == [alias |-> "AsIs"]

Prefix(t) == [alias |-> "Prefix", text |-> t]

Suffix(t) == [alias |-> "Suffix", text |-> t]

\* Alias::parse on the tokens written after `as`: None stands for its abort
AliasParse(tokens) ==
    IF tokens = <<"is">> THEN Some(AsIs)
    ELSE IF Len(tokens) = 2 /\ tokens[1] # "$" /\ tokens[2] = "$" THEN Some(Prefix(tokens[1]))
    ELSE IF Len(tokens) = 2 /\ tokens[1] = "$" /\ tokens[2] # "$" THEN Some(Suffix(tokens[2]))
    ELSE None

\* the aliases as written: `is`, `ds_$`, `$_ds`, and `ds_` without `$`
AliasTokens == {<<"is">>, <<"ds_", "$">>, <<"$", "_ds">>, <<"ds_">>}

\* the files there are: two files and a directory of a file of each kind.  The
\* paths are written without `$`, so that resolve_path returns them as they are
Directories == {"dir"}

Entries == [dir |-> <<"dir/b.surql", "dir/c.txt">>]

Existing == {"a.surql", "c.txt", "dir"}

Surql == {"a.surql", "dir/b.surql"}

\* add_path_if_surql on a file
add_path_if_surql(path) == IF path \in Surql THEN <<path>> ELSE <<>>

\* expand_path: the .surql files of a directory, or the file if it is one
expand_path(path) ==
    IF path \in Directories
    THEN Concat([k \in 1..Len(Entries[path]) |-> add_path_if_surql(Entries[path][k])])
    ELSE add_path_if_surql(path)

\* extend as a Vec does it: every path added
extend_all(paths, more) == paths \o more

RECURSIVE extend(_, _)
\* HashSet::extend: each path inserted unless the set holds it
extend(paths, more) ==
    IF more = <<>> THEN paths
    ELSE extend(IF \E k \in 1..Len(paths) : paths[k] = Head(more)
                THEN paths ELSE Append(paths, Head(more)),
                Tail(more))

Arguments ==
    {[kind |-> k, alias |-> a] : k \in {"driver", "datastore"}, a \in AliasTokens}
        \cup {[kind |-> "other"]}
        \cup {[kind |-> "path", lit |-> l] : l \in Existing \cup {"missing"}}

InitArgs ==
    /\ input \in SeqsUpTo(Arguments, 0, MaxArguments)
    /\ phase = "src"
    /\ result = <<>>

Begin ==
    /\ phase = "src"
    /\ phase' = "loop"
    /\ result' = [paths |-> <<>>, driver |-> None, datastore |-> None, next |-> 1]
    /\ UNCHANGED input

\* the argument the loop is at
argument_at == input[result.next]

Driver ==
    /\ phase = "loop"
    /\ result.next <= Len(input)
    /\ argument_at.kind = "driver"
    /\ AliasParse(argument_at.alias).some
    /\ AliasParse(argument_at.alias) # result.datastore
    /\ result' = [result EXCEPT !.driver = AliasParse(argument_at.alias), !.next = @ + 1]
    /\ UNCHANGED <<input, phase>>

Datastore ==
    /\ phase = "loop"
    /\ result.next <= Len(input)
    /\ argument_at.kind = "datastore"
    /\ AliasParse(argument_at.alias).some
    /\ result.driver # AliasParse(argument_at.alias)
    /\ result' = [result EXCEPT !.datastore = AliasParse(argument_at.alias), !.next = @ + 1]
    /\ UNCHANGED <<input, phase>>

PathArgument ==
    /\ phase = "loop"
    /\ result.next <= Len(input)
    /\ argument_at.kind = "path"
    /\ argument_at.lit \in Existing
    /\ result' = [result EXCEPT !.paths = extend(@, expand_path(argument_at.lit)), !.next = @ + 1]
    /\ UNCHANGED <<input, phase>>

\* abort!: an unknown argument, an alias that is none, the two aliases the
\* same, a file that does not exist
Abort ==
    /\ phase = "loop"
    /\ result.next <= Len(input)
    /\ \/ argument_at.kind = "other"
       \/ /\ argument_at.kind \in {"driver", "datastore"}
          /\ ~AliasParse(argument_at.alias).some
       \/ /\ argument_at.kind = "driver"
          /\ AliasParse(argument_at.alias) = result.datastore
       \/ /\ argument_at.kind = "datastore"
          /\ AliasParse(argument_at.alias) = result.driver
       \/ /\ argument_at.kind = "path"
          /\ argument_at.lit \notin Existing
    /\ phase' = "aborted"
    /\ result' = [at |-> result.next]
    /\ UNCHANGED input

\* panic!: no driver and no datastore, or no path
Panic ==
    /\ phase = "loop"
    /\ result.next > Len(input)
    /\ \/ ~result.datastore.some /\ ~result.driver.some
       \/ result.paths = <<>>
    /\ phase' = "panicked"
    /\ result' = <<>>
    /\ UNCHANGED input

Accept ==
    /\ phase = "loop"
    /\ result.next > Len(input)
    /\ result.datastore.some \/ result.driver.some
    /\ result.paths # <<>>
    /\ phase' = "accepted"
    /\ result' = [paths |-> result.paths, driver |-> result.driver, datastore |-> result.datastore]
    /\ UNCHANGED input

NextArgs == Begin \/ Driver \/ Datastore \/ PathArgument \/ Abort \/ Panic \/ Accept

SpecArgs == InitArgs /\ [][NextArgs]_vars

\* the .surql files the path arguments of the list name
FilesNamed(args) ==
    {f \in Surql : \E k \in 1..Len(args) :
        /\ args[k].kind = "path"
        /\ \/ f = args[k].lit
           \/ /\ args[k].lit \in Directories
              /\ \E j \in 1..Len(Entries[args[k].lit]) : Entries[args[k].lit][j] = f}

\* C25: the arguments parse accepts give a driver and a datastore that are not
\* equal, one of them at least set, and a set of paths that is not empty and
\* holds each file named once
C25_AcceptedArgs ==
    phase = "accepted" =>
        /\ result.driver # result.datastore
        /\ result.driver.some \/ result.datastore.some
        /\ result.paths # <<>>
        /\ \A i, j \in 1..Len(result.paths) : result.paths[i] = result.paths[j] => i = j
        /\ {result.paths[k] : k \in 1..Len(result.paths)} = FilesNamed(input)

\* a file named twice, as in examples/main.rs, is held once
C25_NamedTwice ==
    /\ phase = "accepted"
    /\ input = <<[kind |-> "driver", alias |-> <<"is">>],
                 [kind |-> "path", lit |-> "a.surql"],
                 [kind |-> "path", lit |-> "a.surql"]>>
    /\ result.paths = <<"a.surql">>
    /\ result.driver = Some(AsIs)
    /\ result.datastore = None

----------------------------------------------------------------------------
(* The loop of parser::functions turn by turn: multispace0, the first      *)
(* statement, then separated_list1's turns of colons and function, then    *)
(* the closing colons. result.at is the cursor, result.v the statements    *)
(* held so far.                                                            *)

\* a text of two statements, the first under comments
CutText == FileText([items |-> <<Item(Rich, <<";">>), Item(Plain, <<";", " ">>)>>, trail |-> <<>>])

\* statements under comments or bare, closed by one `;`, by several, by a `;`
\* past a comment, or by none, and one whose body is not closed where it seems
LoopItems ==
    {Item(Rich, <<";">>), Item(Plain, <<";", ";", "\n">>),
     Item(Plain, <<" ", "-", "-", " ", "s", "\n", ";", " ">>), Item(Plain, <<>>),
     Item([Plain EXCEPT !.body = <<"x", " ", "{", "y", "}", ";", " ", "z">>], <<";">>)}

\* the lists of LoopItems, before nothing or text, and every cut of CutText
LoopTexts ==
    {FileText(f) : f \in FilesOf(LoopItems, {<<>>, <<"x">>})}
        \cup {SubSeq(CutText, 1, n) : n \in 0..Len(CutText)}

InitLoop ==
    /\ input \in LoopTexts
    /\ phase = "src"
    /\ result = <<>>

\* let (i, _) = multispace0(i)?
Skip ==
    /\ phase = "src"
    /\ phase' = "first"
    /\ result' = [at |-> multispace0(input, 1).pos, v |-> <<>>]
    /\ UNCHANGED input

\* the first element of separated_list1
First ==
    /\ phase = "first"
    /\ function(input, result.at).ok
    /\ phase' = "more"
    /\ result' = [at |-> function(input, result.at).pos,
                  v  |-> <<function(input, result.at).val>>]
    /\ UNCHANGED input

\* separated_list1 goes on: a separator that consumed input, then a statement
Goes(s, at) ==
    /\ colons(s, at).ok
    /\ colons(s, at).pos # at
    /\ function(s, colons(s, at).pos).ok

\* separated_list1 gives the error of a separator that consumed nothing
Stalls(s, at) == colons(s, at).ok /\ colons(s, at).pos = at

\* one turn of separated_list1's loop
Turn ==
    /\ phase = "more"
    /\ Goes(input, result.at)
    /\ phase' = "more"
    /\ result' = [at |-> function(input, colons(input, result.at).pos).pos,
                  v  |-> Append(result.v, function(input, colons(input, result.at).pos).val)]
    /\ UNCHANGED input

\* the list is over and the closing colons is there: Ok((i, v))
Close ==
    /\ phase = "more"
    /\ ~Goes(input, result.at)
    /\ ~Stalls(input, result.at)
    /\ colons(input, result.at).ok
    /\ phase' = "done"
    /\ result' = [at |-> colons(input, result.at).pos, v |-> result.v]
    /\ UNCHANGED input

\* the ? of functions: no first statement, or no closing colons
Reject ==
    /\ IF phase = "first" THEN ~function(input, result.at).ok
       ELSE phase = "more" /\ ~Goes(input, result.at)
                /\ (Stalls(input, result.at) \/ ~colons(input, result.at).ok)
    /\ phase' = "failed"
    /\ result' = result
    /\ UNCHANGED input

NextLoop == Skip \/ First \/ Turn \/ Close \/ Reject

SpecLoop == InitLoop /\ [][NextLoop]_vars

\* the loop goes on while it can
SpecLoopFair == SpecLoop /\ WF_vars(NextLoop)

\* a parser that, where it succeeds at p, ends after p
Consumes(r, p) == r.ok => r.pos > p

\* C26: functions comes to an end on every text, with a result or a failure:
\* the statement parser, the `;` terminator and a comment consume at least one
\* character wherever they succeed, every turn of the statement list moves the
\* cursor forward, and the end the turns reach is the one functions gives
C26_Terminates ==
    /\ <>(phase \in {"done", "failed"})
    /\ [][
          (phase' = "more") => (result'.at > result.at /\ result'.at <= Len(input) + 1)
       ]_vars
    /\ [](phase = "src" => \A p \in 1..(Len(input) + 1) :
            /\ Consumes(function(input, p), p)
            /\ Consumes(colons(input, p), p)
            /\ Consumes(any_comment(input, p), p)
            /\ Consumes(comment_wanted(input, p), p))
    /\ [](phase = "done" => functions(input, 1) = Ok(result.at, result.v))
    /\ [](phase = "failed" => ~functions(input, 1).ok)

\* two statements read in two turns, the first under a list of comments
C26_TwoTurns ==
    /\ phase = "done"
    /\ Len(result.v) = 2
    /\ Len(result.v[1].comments) = 2
    /\ result.at = Len(input) + 1

====
